---- MODULE Spec2Model ----
(***************************************************************************)
(* Model of Backend/db/connectDB.js: the asynchronous database bootstrap    *)
(* helper `connectDB`.  One process, a single JavaScript event loop, a      *)
(* process-wide MONGO_URI, and up to MaxInvocations invocations of          *)
(* connectDB (the function is exported, so any code may call it again).     *)
(* The transport (mongoose.connect) is the environment: it settles a        *)
(* pending attempt by resolving or rejecting it, or never settles it.       *)
(***************************************************************************)
EXTENDS Integers, Sequences, FiniteSets, TLC

\* ---------------------------------------------------------------- bounds
MaxInvocations == 2
MaxRequests == 2

Invocations == 1..MaxInvocations

\* ------------------------------------------------- configuration targets
Absent == "<undefined>"
Empty == ""
Malformed == "not-a-uri"
Unreachable == "mongodb://10.255.255.1/db"
Valid == "mongodb://localhost/db"

Targets == {Absent, Empty, Malformed, Unreachable, Valid}

\* ------------------------------------------ what mongoose.connect yields
Hosts == {"localhost"}
NoConnection == "<no .connection>"
TypeError == "TypeError"

\* values a successful attempt can resolve to, by target
ResolvedValues(uri) ==
    IF uri = Valid THEN Hosts \cup {NoConnection} ELSE {}

\* errors a failing attempt can reject with, by target
Errors(uri) ==
    CASE uri = Absent -> {"MongooseError"}
      [] uri = Empty -> {"MongooseError"}
      [] uri = Malformed -> {"MongoParseError"}
      [] OTHER -> {"MongooseServerSelectionError"}

VARIABLES
    MONGO_URI,      \* process.env.MONGO_URI
    pc,             \* pc[i]: position of invocation i inside connectDB
    connState,      \* connState[i]: state of the promise of mongoose.connect
    connValue,      \* connValue[i]: value or error that promise settled with
    attempts,       \* attempts[i]: calls of mongoose.connect made by i
    attemptTarget,  \* attemptTarget[i]: argument of the last such call
    error,          \* error[i]: the value bound by `catch (error)`
    log,            \* console.log output, in order
    exitCalls,      \* calls of process.exit, in order
    running,        \* invocation holding the event loop, 0 when it is free
    callerPc,       \* the startup routine that awaits connectDB
    requests        \* requests the downstream layer has handled

vars == <<MONGO_URI, pc, connState, connValue, attempts, attemptTarget,
          error, log, exitCalls, running, callerPc, requests>>

alive == exitCalls = <<>>

\* --------------------------------------------------------- code pieces
\* line 5: console.log(process.env.MONGO_URI)
TargetLine_Omitted(i) ==
    <<>>

TargetLine_Redacted(i) ==
    <<[inv |-> i, kind |-> "target", text |-> "***"]>>

TargetLine(i) ==
    <<[inv |-> i, kind |-> "target", text |-> MONGO_URI]>>

\* line 6: the argument handed to mongoose.connect
ConnectArg_Defaulted ==
    IF MONGO_URI \in {Absent, Empty} THEN Valid ELSE MONGO_URI

ConnectArg ==
    MONGO_URI

\* line 6: `await` lets the function continue only once the promise settled
Settled_Timeout(i) ==
    connState[i] \in {"pending", "resolved", "rejected"}

Settled(i) ==
    connState[i] \in {"resolved", "rejected"}

\* line 7: console.log("Connected to MongoDB to :", connection.connection.host)
SuccessLine_Twice(i) ==
    <<[inv |-> i, kind |-> "success", text |-> connValue[i]],
      [inv |-> i, kind |-> "success", text |-> connValue[i]]>>

SuccessLine(i) ==
    <<[inv |-> i, kind |-> "success", text |-> connValue[i]]>>

\* lines 4 and 8: where control goes when something inside `try` throws
CatchTarget_Retry(i) ==
    IF attempts[i] < 2 THEN "L6" ELSE "L9"

CatchTarget_Rethrow(i) ==
    "rejected"

CatchTarget(i) ==
    "L9"

\* line 9: console.log("Error connecting to database", error)
ErrorLine_Silent(i) ==
    <<>>

ErrorLine(i) ==
    <<[inv |-> i, kind |-> "error", text |-> error[i]]>>

\* line 10: process.exit(1)
ExitStatus ==
    1

\* lines 3 and 12: the promise of the async function is fulfilled on return
PromiseSettled_Early(i) ==
    pc[i] \in {"awaiting", "L7", "returned"}

PromiseSettled(i) ==
    pc[i] = "returned"

\* ------------------------------------------------------------- Init
Init ==
    /\ MONGO_URI \in Targets
    /\ pc = [i \in Invocations |-> "idle"]
    /\ connState = [i \in Invocations |-> "none"]
    /\ connValue = [i \in Invocations |-> "-"]
    /\ attempts = [i \in Invocations |-> 0]
    /\ attemptTarget = [i \in Invocations |-> "-"]
    /\ error = [i \in Invocations |-> "-"]
    /\ log = <<>>
    /\ exitCalls = <<>>
    /\ running = 0
    /\ callerPc = "start"
    /\ requests = 0

\* ------------------------------------------------------------ actions
\* line 3: connectDB() is called; invocation 1 by the startup routine, which
\* then awaits the returned promise, later ones by any other code
Call(i) ==
    /\ alive /\ running = 0
    /\ pc[i] = "idle"
    /\ \A j \in Invocations : j < i => pc[j] # "idle"
    /\ pc' = [pc EXCEPT ![i] = "L5"]
    /\ running' = i
    /\ callerPc' = IF i = 1 THEN "awaiting" ELSE callerPc
    /\ UNCHANGED <<MONGO_URI, connState, connValue, attempts, attemptTarget,
                   error, log, exitCalls, requests>>

\* line 5
LogTarget(i) ==
    /\ alive /\ running = i
    /\ pc[i] = "L5"
    /\ log' = log \o TargetLine(i)
    /\ pc' = [pc EXCEPT ![i] = "L6"]
    /\ UNCHANGED <<MONGO_URI, connState, connValue, attempts, attemptTarget,
                   error, exitCalls, running, callerPc, requests>>

\* line 6, up to the suspension: mongoose.connect(...) is called and the
\* function yields the event loop
Connect(i) ==
    /\ alive /\ running = i
    /\ pc[i] = "L6"
    /\ attempts' = [attempts EXCEPT ![i] = @ + 1]
    /\ attemptTarget' = [attemptTarget EXCEPT ![i] = ConnectArg]
    /\ connState' = [connState EXCEPT ![i] = "pending"]
    /\ connValue' = [connValue EXCEPT ![i] = "-"]
    /\ pc' = [pc EXCEPT ![i] = "awaiting"]
    /\ running' = 0
    /\ UNCHANGED <<MONGO_URI, error, log, exitCalls, callerPc, requests>>

\* the transport resolves the pending attempt
TransportResolve(i) ==
    /\ alive
    /\ connState[i] = "pending"
    /\ \E v \in ResolvedValues(attemptTarget[i]) :
          /\ connState' = [connState EXCEPT ![i] = "resolved"]
          /\ connValue' = [connValue EXCEPT ![i] = v]
    /\ UNCHANGED <<MONGO_URI, pc, attempts, attemptTarget, error, log,
                   exitCalls, running, callerPc, requests>>

\* the transport rejects the pending attempt
TransportReject(i) ==
    /\ alive
    /\ connState[i] = "pending"
    /\ \E e \in Errors(attemptTarget[i]) :
          /\ connState' = [connState EXCEPT ![i] = "rejected"]
          /\ connValue' = [connValue EXCEPT ![i] = e]
    /\ UNCHANGED <<MONGO_URI, pc, attempts, attemptTarget, error, log,
                   exitCalls, running, callerPc, requests>>

\* line 6, after the suspension: the function continues at line 7 when the
\* promise was fulfilled, in the catch clause when it was rejected
Resume(i) ==
    /\ alive /\ running = 0
    /\ pc[i] = "awaiting"
    /\ Settled(i)
    /\ IF connState[i] = "resolved"
         THEN /\ pc' = [pc EXCEPT ![i] = "L7"]
              /\ running' = i
              /\ error' = error
         ELSE /\ pc' = [pc EXCEPT ![i] = CatchTarget(i)]
              /\ running' = IF CatchTarget(i) = "rejected" THEN 0 ELSE i
              /\ error' = [error EXCEPT ![i] = connValue[i]]
    /\ UNCHANGED <<MONGO_URI, connState, connValue, attempts, attemptTarget,
                   log, exitCalls, callerPc, requests>>

\* line 7: reading connection.connection.host throws when the resolved value
\* has no `.connection`; otherwise the line is logged and the function returns
LogSuccess(i) ==
    /\ alive /\ running = i
    /\ pc[i] = "L7"
    /\ IF connValue[i] = NoConnection
         THEN /\ pc' = [pc EXCEPT ![i] = CatchTarget(i)]
              /\ running' = IF CatchTarget(i) = "rejected" THEN 0 ELSE i
              /\ error' = [error EXCEPT ![i] = TypeError]
              /\ log' = log
         ELSE /\ pc' = [pc EXCEPT ![i] = "returned"]
              /\ running' = 0
              /\ error' = error
              /\ log' = log \o SuccessLine(i)
    /\ UNCHANGED <<MONGO_URI, connState, connValue, attempts, attemptTarget,
                   exitCalls, callerPc, requests>>

\* line 9
LogError(i) ==
    /\ alive /\ running = i
    /\ pc[i] = "L9"
    /\ log' = log \o ErrorLine(i)
    /\ pc' = [pc EXCEPT ![i] = "L10"]
    /\ UNCHANGED <<MONGO_URI, connState, connValue, attempts, attemptTarget,
                   error, exitCalls, running, callerPc, requests>>

\* line 10
Exit(i) ==
    /\ alive /\ running = i
    /\ pc[i] = "L10"
    /\ exitCalls' = Append(exitCalls, [inv |-> i, code |-> ExitStatus])
    /\ pc' = [pc EXCEPT ![i] = "exited"]
    /\ UNCHANGED <<MONGO_URI, connState, connValue, attempts, attemptTarget,
                   error, log, running, callerPc, requests>>

\* the startup routine continues past `await connectDB()`
StartServing ==
    /\ alive /\ running = 0
    /\ callerPc = "awaiting"
    /\ PromiseSettled(1)
    /\ callerPc' = "serving"
    /\ UNCHANGED <<MONGO_URI, pc, connState, connValue, attempts,
                   attemptTarget, error, log, exitCalls, running, requests>>

\* the downstream layer handles a request
HandleRequest ==
    /\ alive /\ running = 0
    /\ callerPc = "serving"
    /\ requests < MaxRequests
    /\ requests' = requests + 1
    /\ UNCHANGED <<MONGO_URI, pc, connState, connValue, attempts,
                   attemptTarget, error, log, exitCalls, running, callerPc>>

Step(i) ==
    \/ LogTarget(i)
    \/ Connect(i)
    \/ Resume(i)
    \/ LogSuccess(i)
    \/ LogError(i)
    \/ Exit(i)

Next ==
    \/ \E i \in Invocations : Call(i)
    \/ \E i \in Invocations : LogTarget(i)
    \/ \E i \in Invocations : Connect(i)
    \/ \E i \in Invocations : TransportResolve(i)
    \/ \E i \in Invocations : TransportReject(i)
    \/ \E i \in Invocations : Resume(i)
    \/ \E i \in Invocations : LogSuccess(i)
    \/ \E i \in Invocations : LogError(i)
    \/ \E i \in Invocations : Exit(i)
    \/ StartServing
    \/ HandleRequest

Spec == Init /\ [][Next]_vars

\* The event loop runs every continuation that is ready; nothing obliges the
\* transport to settle an attempt or anyone to call connectDB.
FairSpec == Spec /\ \A i \in Invocations : WF_vars(Step(i))

\* ------------------------------------------------------ observations
\* positions in the log of the lines of kind k written by invocation i
Lines(i, k) == {n \in DOMAIN log : log[n].inv = i /\ log[n].kind = k}

\* positions in the log of all lines written by invocation i
LinesOf(i) == {n \in DOMAIN log : log[n].inv = i}

\* invocation i has left connectDB for good
Finished(i) == pc[i] \in {"returned", "exited", "rejected"}

\* the last thing logged is invocation i's failure message with detail d
LastLineIsError(i, d) ==
    /\ log # <<>>
    /\ log[Len(log)] = [inv |-> i, kind |-> "error", text |-> d]

RECURSIVE SumAttempts(_)
SumAttempts(n) == IF n = 0 THEN 0 ELSE attempts[n] + SumAttempts(n - 1)

\* calls of mongoose.connect made in this process so far
ConnectCalls == SumAttempts(MaxInvocations)

\* -------------------------------------------------------------- claims

\* C1: an invocation whose connection attempt was rejected never reaches the
\* success line or a normal return; when it has finished it has called
\* process.exit with code 1, and its failure message, carrying the rejection
\* error, was logged before that call (it is the last line of the log).
C1_FailFast ==
    \A i \in Invocations :
        connState[i] = "rejected" =>
            /\ pc[i] \notin {"L7", "returned", "rejected"}
            /\ pc[i] = "exited" =>
                  /\ exitCalls = <<[inv |-> i, code |-> 1]>>
                  /\ LastLineIsError(i, connValue[i])
            /\ exitCalls # <<>> => \E j \in Invocations :
                  LastLineIsError(j, error[j])

C1_Witness ==
    \E i \in Invocations :
        /\ connState[i] = "rejected"
        /\ pc[i] = "exited"
        /\ exitCalls # <<>>

\* C2: an invocation whose attempt resolved with a connection that reports a
\* host never enters the catch clause; when it has finished it has returned
\* normally (Connected), has logged exactly one success line, which carries
\* that host, and no failure line, and has not called process.exit; if no
\* other invocation was made the process is still running.
C2_SuccessPath ==
    \A i \in Invocations :
        (connState[i] = "resolved" /\ connValue[i] \in Hosts) =>
            /\ pc[i] \in {"awaiting", "L7", "returned"}
            /\ \A n \in DOMAIN exitCalls : exitCalls[n].inv # i
            /\ Lines(i, "error") = {}
            /\ pc[i] = "returned" =>
                  /\ Cardinality(Lines(i, "success")) = 1
                  /\ \A n \in Lines(i, "success") : log[n].text = connValue[i]
                  /\ (\A j \in Invocations : j # i => pc[j] = "idle") => alive

C2_Witness ==
    \E i \in Invocations :
        /\ connState[i] = "resolved"
        /\ connValue[i] \in Hosts
        /\ pc[i] = "returned"
        /\ alive

\* C3: every invocation calls mongoose.connect at most once, exactly once as
\* soon as it has passed line 6, and after a rejected attempt it only moves
\* through the catch clause to process.exit: there is no second attempt.
C3_SingleAttempt ==
    \A i \in Invocations :
        /\ attempts[i] <= 1
        /\ pc[i] \notin {"idle", "L5", "L6"} => attempts[i] = 1
        /\ connState[i] = "rejected" =>
              pc[i] \in {"awaiting", "L9", "L10", "exited"}

C3_Witness ==
    \E i \in Invocations :
        /\ connState[i] = "rejected"
        /\ pc[i] = "exited"
        /\ attempts[i] = 1

\* C4: once an invocation has passed line 5, and so before it starts its
\* connection attempt, the log holds exactly one target line of that
\* invocation, its text is MONGO_URI unchanged, and it precedes every other
\* line of that invocation; this stays so whether the attempt succeeds or
\* fails.
C4_TargetLoggedFirst ==
    \A i \in Invocations :
        pc[i] \notin {"idle", "L5"} =>
            /\ Cardinality(Lines(i, "target")) = 1
            /\ \A n \in Lines(i, "target") :
                  /\ log[n].text = MONGO_URI
                  /\ \A m \in LinesOf(i) : n <= m

C4_Witness ==
    /\ pc[1] = "returned"
    /\ pc[2] = "exited"
    /\ Lines(1, "target") # {}
    /\ Lines(2, "target") # {}

C6_OneAttemptPerProcess ==
    /\ ConnectCalls <= 1
    /\ Cardinality({i \in Invocations : attempts[i] > 0}) <= 1

\* C7 (as stated): a run that returned has logged exactly two lines, the
\* target and the success message; a run that exited has logged exactly one
\* line, the failure message.
C7_LineCountAsStated ==
    \A i \in Invocations :
        /\ pc[i] = "returned" =>
              /\ Cardinality(LinesOf(i)) = 2
              /\ Cardinality(Lines(i, "success")) = 1
        /\ pc[i] = "exited" =>
              /\ Cardinality(LinesOf(i)) = 1
              /\ Cardinality(Lines(i, "error")) = 1

\* C7 (amended): every finished run has logged exactly two lines, the raw
\* target first; the second is the success message with the host when the
\* run returned and the failure message with the error detail when it exited.
C7_TwoLinesOnBothPaths ==
    \A i \in Invocations :
        Finished(i) =>
            /\ Cardinality(LinesOf(i)) = 2
            /\ Cardinality(Lines(i, "target")) = 1
            /\ \A n \in Lines(i, "target") : \A m \in LinesOf(i) : n <= m
            /\ pc[i] = "returned" =>
                  /\ Cardinality(Lines(i, "success")) = 1
                  /\ \A n \in Lines(i, "success") : log[n].text = connValue[i]
            /\ pc[i] = "exited" =>
                  /\ Cardinality(Lines(i, "error")) = 1
                  /\ \A n \in Lines(i, "error") : log[n].text = error[i]

C7_Witness ==
    \E i \in Invocations :
        /\ pc[i] = "exited"
        /\ connState[i] = "rejected"
        /\ Cardinality(LinesOf(i)) = 2

\* C8: with MONGO_URI absent or empty an invocation that has passed line 6
\* has still made its one connection attempt, with that very value as the
\* target; it never returns normally, and when it has finished it has logged
\* the failure message and called process.exit with code 1.
C8_NoValidation ==
    \A i \in Invocations :
        MONGO_URI \in {Absent, Empty} =>
            /\ pc[i] \notin {"idle", "L5", "L6"} =>
                  /\ attempts[i] = 1
                  /\ attemptTarget[i] = MONGO_URI
            /\ pc[i] \notin {"L7", "returned"}
            /\ Finished(i) =>
                  /\ pc[i] = "exited"
                  /\ LastLineIsError(i, error[i])
                  /\ exitCalls = <<[inv |-> i, code |-> 1]>>

C8_Witness ==
    \E i \in Invocations :
        /\ MONGO_URI = Absent
        /\ attemptTarget[i] = Absent
        /\ pc[i] = "exited"

\* C9: while its connection attempt stays pending an invocation stays at the
\* await, logs nothing and does not exit the process; and once the attempt
\* has settled, the invocation eventually is Connected or the process is
\* terminated.
C9_NoTimeout ==
    /\ [][\A i \in Invocations :
            (pc[i] = "awaiting" /\ connState[i] = "pending"
                                /\ connState'[i] = "pending") =>
                /\ pc'[i] = "awaiting"
                /\ \A n \in DOMAIN log' : n > Len(log) => log'[n].inv # i
                /\ \A n \in DOMAIN exitCalls' : exitCalls'[n].inv # i]_vars
    /\ \A i \in Invocations :
          (connState[i] \in {"resolved", "rejected"})
              ~> (pc[i] = "returned" \/ ~alive)

C9_Witness ==
    \E i \in Invocations :
        /\ MONGO_URI = Unreachable
        /\ pc[i] = "awaiting"
        /\ connState[i] = "pending"
        /\ Lines(i, "success") = {}
        /\ Lines(i, "error") = {}
        /\ alive

\* C10: no invocation logs both the success and the failure message; the
\* promise of connectDB is never rejected; process.exit is called with code 1
\* and only right after the caller's failure message; and an invocation whose
\* attempt resolved but whose success line threw ends with the failure
\* message carrying that exception and process.exit(1), with no success line.
C10_ExclusiveOutcomes ==
    /\ \A i \in Invocations :
          /\ ~(Lines(i, "success") # {} /\ Lines(i, "error") # {})
          /\ pc[i] # "rejected"
          /\ (connState[i] = "resolved" /\ connValue[i] = NoConnection
                                        /\ Finished(i)) =>
                /\ pc[i] = "exited"
                /\ Lines(i, "success") = {}
                /\ LastLineIsError(i, TypeError)
    /\ \A n \in DOMAIN exitCalls :
          /\ exitCalls[n].code = 1
          /\ LastLineIsError(exitCalls[n].inv, error[exitCalls[n].inv])

C10_Witness ==
    \E i \in Invocations :
        /\ connState[i] = "resolved"
        /\ connValue[i] = NoConnection
        /\ pc[i] = "exited"

====
